---- MODULE Spec2Model ----
(***************************************************************************)
(* A model of flame.deca.recon.DecaReconModel and of the helpers of        *)
(* flame.utils it relies on (load_obj, upsample_mesh).                     *)
(*                                                                         *)
(* Numbers.  A floating point value is modelled as a pair <<n, d>>:        *)
(*   d > 0   the rational n/d in lowest terms,                             *)
(*   <<0,0>> NaN,  <<1,0>> +Inf,  <<-1,0>> -Inf.                           *)
(* Arithmetic is exact on the rationals and follows IEEE-754 on the three  *)
(* special values (x/0, Inf-Inf, 0*Inf, NaN propagation).  Rounding is not *)
(* modelled.                                                               *)
(***************************************************************************)
EXTENDS Integers, Sequences, FiniteSets, TLC

VARIABLES
    \* ---- the DecaReconModel instance (recon.py) ----
    pc,          \* "new" (before __init__), "ready" (constructed), "failed" (__init__ raised)
    name,        \* self.name
    device,      \* self.device
    img_size,    \* self.img_size: None or <<shape[2], shape[3]>>
    tform,       \* self.tform: None or a 3x3 matrix
    warned,      \* self._warned_about_tform
    steps,       \* the methods __init__ has run, in order (what has been loaded/created)
    log,         \* the warnings sent to the logger, in order
    exc,         \* the exception the last operation raised ("none" if it returned)
    last,        \* the last operation on the instance and its arguments
    out,         \* the return value of the last __call__ (dec_dict)
    hist,        \* what the caller has done so far: tform_set (it has passed or
                 \* assigned tform), calls (the calls that returned: 0, 1, 2 = two or more)
    \* ---- _decompose_params on its own ----
    d_pc, blocks, parameters, enc_dict,
    \* ---- upsample_mesh on its own ----
    u_pc, u_in, v_dense,
    \* ---- load_obj on its own ----
    o_pc, lines, obj

vars == <<pc, name, device, img_size, tform, warned, steps, log, exc, last, out, hist,
          d_pc, blocks, parameters, enc_dict, u_pc, u_in, v_dense, o_pc, lines, obj>>

recon_vars == <<pc, name, device, img_size, tform, warned, steps, log, exc, last, out, hist>>
decomp_vars == <<d_pc, blocks, parameters, enc_dict>>
upsample_vars == <<u_pc, u_in, v_dense>>
obj_vars == <<o_pc, lines, obj>>

\* Python's None (for an attribute that otherwise holds a tuple or a matrix).
None == <<>>

-----------------------------------------------------------------------------
(* Numbers *)

Abs(x) == IF x < 0 THEN -x ELSE x
Sign(x) == IF x < 0 THEN -1 ELSE IF x > 0 THEN 1 ELSE 0
Min(a, b) == IF a < b THEN a ELSE b
Max(a, b) == IF a > b THEN a ELSE b

RECURSIVE Gcd(_, _)
Gcd(a, b) == IF b = 0 THEN a ELSE Gcd(b, a % b)

\* n/d in lowest terms with a positive denominator (d # 0).
Q(n, d) ==
    LET g == Gcd(Abs(n), Abs(d))
    IN  <<Sign(d) * (n \div g), Abs(d) \div g>>

I(n) == <<n, 1>>
NaN == <<0, 0>>
Inf(s) == <<s, 0>>
IsNaN(a) == a = NaN
IsInf(a) == a[2] = 0 /\ a[1] # 0
IsFinite(a) == a[2] > 0
IsZero(a) == a[2] > 0 /\ a[1] = 0

FNeg(a) == <<-a[1], a[2]>>

FAdd(a, b) ==
    IF IsNaN(a) \/ IsNaN(b) THEN NaN
    ELSE IF IsInf(a) /\ IsInf(b) THEN (IF a[1] = b[1] THEN a ELSE NaN)
    ELSE IF IsInf(a) THEN a
    ELSE IF IsInf(b) THEN b
    ELSE IF a[1] = 0 THEN b
    ELSE IF b[1] = 0 THEN a
    ELSE IF a[2] = b[2] THEN (IF a[2] = 1 THEN <<a[1] + b[1], 1>> ELSE Q(a[1] + b[1], a[2]))
    ELSE LET l == (a[2] \div Gcd(a[2], b[2])) * b[2]
         IN  Q(a[1] * (l \div a[2]) + b[1] * (l \div b[2]), l)

FSub(a, b) == FAdd(a, FNeg(b))

FMul(a, b) ==
    IF IsNaN(a) \/ IsNaN(b) THEN NaN
    ELSE IF IsInf(a) \/ IsInf(b)
         THEN (IF a[1] = 0 \/ b[1] = 0 THEN NaN ELSE Inf(Sign(a[1]) * Sign(b[1])))
    ELSE IF a[1] = 0 \/ b[1] = 0 THEN <<0, 1>>
    ELSE IF a[2] = 1 /\ b[2] = 1 THEN <<a[1] * b[1], 1>>
    ELSE LET g == Gcd(Abs(a[1]), b[2])
             h == Gcd(Abs(b[1]), a[2])
         IN  <<(a[1] \div g) * (b[1] \div h), (a[2] \div h) * (b[2] \div g)>>

\* numpy's true division: x/0 is +-Inf, 0/0 is NaN (a RuntimeWarning, no exception).
FDiv(a, b) ==
    IF IsNaN(a) \/ IsNaN(b) THEN NaN
    ELSE IF IsInf(b) THEN (IF IsInf(a) THEN NaN ELSE I(0))
    ELSE IF IsInf(a) THEN (IF b[1] < 0 THEN FNeg(a) ELSE a)
    ELSE IF b[1] = 0 THEN (IF a[1] = 0 THEN NaN ELSE Inf(Sign(a[1])))
    ELSE FMul(a, <<Sign(b[1]) * b[2], Abs(b[1])>>)

\* floor(sqrt(n)) for n >= 0
RECURSIVE ISqrt(_)
ISqrt(n) ==
    IF n < 2 THEN n
    ELSE LET s == 2 * ISqrt(n \div 4)
         IN  IF (s + 1) * (s + 1) > n THEN s ELSE s + 1

\* The square root: exact when the argument is the square of a rational, else
\* rounded down to a multiple of 1/(1000 d).
FSqrt(a) ==
    IF IsNaN(a) THEN NaN
    ELSE IF IsInf(a) THEN (IF a[1] > 0 THEN a ELSE NaN)
    ELSE IF a[1] < 0 THEN NaN
    ELSE LET rn == ISqrt(a[1])
             rd == ISqrt(a[2])
         IN  IF rn * rn = a[1] /\ rd * rd = a[2] THEN Q(rn, rd)
             ELSE Q(ISqrt(a[1] * a[2] * 1000000), a[2] * 1000)

\* A function over 1..n as an explicit tuple
Tup(f) == f \o <<>>

RECURSIVE FSum(_)
FSum(s) == IF s = <<>> THEN I(0) ELSE FAdd(s[1], FSum(Tail(s)))

\* Vectors are sequences of numbers.
VScale(c, x) == Tup([k \in DOMAIN x |-> FMul(c, x[k])])
VAdd(x, y) == Tup([k \in DOMAIN x |-> FAdd(x[k], y[k])])
VDot(x, y) == FSum(Tup([k \in DOMAIN x |-> FMul(x[k], y[k])]))
VNorm(x) == FSqrt(VDot(x, x))
VI(x) == Tup([k \in DOMAIN x |-> I(x[k])])

-----------------------------------------------------------------------------
(* DecaReconModel._decompose_params *)

N_SHAPE == 100
N_TEX == 50
N_EXP == 50
N_POSE == 6
N_CAM == 3
N_LIGHT == 27

\* self.param_dict, an insertion-ordered dict: the items in declaration order.
param_dict ==
    << <<"n_shape", N_SHAPE>>, <<"n_tex", N_TEX>>, <<"n_exp", N_EXP>>,
       <<"n_pose", N_POSE>>, <<"n_cam", N_CAM>>, <<"n_light", N_LIGHT>> >>

RECURSIVE SumSizes(_)
SumSizes(d) == IF d = <<>> THEN 0 ELSE d[1][2] + SumSizes(Tail(d))

\* self.n_param
n_param == SumSizes(param_dict)

\* key[2:] on the keys of param_dict
TrimKey(key) ==
    CASE key = "n_shape" -> "shape"
      [] key = "n_tex"   -> "tex"
      [] key = "n_exp"   -> "exp"
      [] key = "n_pose"  -> "pose"
      [] key = "n_cam"   -> "cam"
      [] key = "n_light" -> "light"
      [] OTHER           -> key

\* num_dict["n_" + key]
Lookup(num_dict, key) ==
    LET i == CHOOSE i \in 1..Len(num_dict) : TrimKey(num_dict[i][1]) = key
    IN  num_dict[i][2]

\* Mutant of Slice: the slice starts one column early
Slice_OneEarly(row, start, end) ==
    LET lo == Min(start, Len(row))
        hi == Min(end, Len(row))
    IN  IF hi <= lo THEN <<>> ELSE SubSeq(row, Max(lo, 1), hi)

\* row[start:end] with 0 <= start <= end: Python clamps both ends to the length.
Slice(row, start, end) ==
    LET lo == Min(start, Len(row))
        hi == Min(end, Len(row))
    IN  IF hi <= lo THEN <<>> ELSE SubSeq(row, lo + 1, hi)

\* parameters[:, start:end]
Columns(params, start, end) == Tup([b \in DOMAIN params |-> Slice(params[b], start, end)])

\* x.reshape(x.shape[0], 9, 3) of a (batch, 27) array, row-major
Reshape93(x) ==
    Tup([b \in DOMAIN x |-> Tup([i \in 1..9 |-> Tup([j \in 1..3 |-> x[b][3 * (i - 1) + j]])])])

\* reshape raises unless the array holds batch * 27 elements
CanReshape93(x) == \A b \in DOMAIN x : Len(x[b]) = 27

\* The loop of _decompose_params from the i-th item on.  The result is
\* [err, d]: err = "RuntimeError" when the reshape of the light block raised
\* (what torch raises; the encoder's output is a torch tensor).
RECURSIVE DecomposeLoop(_, _, _, _, _)
DecomposeLoop(params, num_dict, i, start, d) ==
    IF i > Len(num_dict) THEN [err |-> "none", d |-> d]
    ELSE LET key == TrimKey(num_dict[i][1])
             end == start + Lookup(num_dict, key)
             cols == Columns(params, start, end)
         IN  IF key = "light"
             THEN IF CanReshape93(cols)
                  THEN DecomposeLoop(params, num_dict, i + 1, end,
                                     (key :> Reshape93(cols)) @@ d)
                  ELSE [err |-> "RuntimeError", d |-> d]
             ELSE DecomposeLoop(params, num_dict, i + 1, end,
                                (key :> cols) @@ d)

EmptyDict == <<>>

\* Mutant of DecomposeParams: the width of the input is checked first
DecomposeParams_WidthChecked(params, num_dict) ==
    IF \E b \in DOMAIN params : Len(params[b]) # SumSizes(num_dict)
    THEN [err |-> "ValueError", d |-> EmptyDict]
    ELSE DecomposeLoop(params, num_dict, 1, 0, EmptyDict)

DecomposeParams(params, num_dict) == DecomposeLoop(params, num_dict, 1, 0, EmptyDict)

-----------------------------------------------------------------------------
(* _decompose_params on its own: a coefficient array is built by            *)
(* concatenating six blocks (what the encoder E_flame returns), then        *)
(* decomposed.                                                              *)

MaxBatch == 2
Seeds == {1, 2}

GroupNames == <<"shape", "tex", "exp", "pose", "cam", "light">>

\* The block of group number g: batch rows of `size` columns; the entries
\* differ from column to column, row to row and group to group.
Block(g, size, seed, batch) ==
    Tup([b \in 1..batch |-> Tup([j \in 1..size |-> seed * 10000 + g * 1000 + j * 10 + b])])

RECURSIVE ConcatBlocks(_, _, _)
ConcatBlocks(bl, order, b) ==
    IF order = <<>> THEN <<>> ELSE bl[Head(order)][b] \o ConcatBlocks(bl, Tail(order), b)

DecompInit ==
    /\ d_pc = "blocks"
    /\ \E batch \in 1..MaxBatch, seed \in [1..6 -> Seeds] :
          blocks = [k \in {GroupNames[g] : g \in 1..6} |->
                      LET g == CHOOSE g \in 1..6 : GroupNames[g] = k
                      IN  Block(g, param_dict[g][2], seed[g], batch)]
    /\ parameters = <<>>
    /\ enc_dict = [err |-> "none", d |-> EmptyDict]

DecompIdle ==
    /\ d_pc = "idle"
    /\ blocks = EmptyDict
    /\ parameters = <<>>
    /\ enc_dict = [err |-> "none", d |-> EmptyDict]

\* enc_params = self.E_flame(image): the blocks side by side, in declaration order
BuildParameters ==
    /\ d_pc = "blocks"
    /\ parameters' = Tup([b \in DOMAIN blocks["shape"] |-> ConcatBlocks(blocks, GroupNames, b)])
    /\ d_pc' = "built"
    /\ UNCHANGED <<blocks, enc_dict>>

\* enc_dict = self._decompose_params(enc_params, self.param_dict)
Decompose ==
    /\ d_pc = "built"
    /\ enc_dict' = DecomposeParams(parameters, param_dict)
    /\ d_pc' = "done"
    /\ UNCHANGED <<blocks, parameters>>

-----------------------------------------------------------------------------
(* Matrices: a matrix is a sequence of rows, a row a sequence of numbers.   *)

Eye(n) == Tup([i \in 1..n |-> Tup([j \in 1..n |-> IF i = j THEN I(1) ELSE I(0)])])

MI(m) == Tup([i \in DOMAIN m |-> VI(m[i])])

\* A @ B
MatMul(A, B) ==
    Tup([i \in 1..Len(A) |-> Tup([j \in 1..Len(B[1]) |->
        FSum(Tup([k \in 1..Len(B) |-> FMul(A[i][k], B[k][j])]))])])

\* A.T
Transpose(A) == Tup([j \in 1..Len(A[1]) |-> Tup([i \in 1..Len(A) |-> A[i][j]])])

\* A with row i and column j removed
Minor(A, i, j) ==
    Tup([r \in 1..(Len(A) - 1) |-> Tup([c \in 1..(Len(A) - 1) |->
        A[IF r < i THEN r ELSE r + 1][IF c < j THEN c ELSE c + 1]])])

Det2(A) == FSub(FMul(A[1][1], A[2][2]), FMul(A[1][2], A[2][1]))

Det3(A) ==
    FAdd(FSub(FMul(A[1][1], Det2(Minor(A, 1, 1))),
              FMul(A[1][2], Det2(Minor(A, 1, 2)))),
         FMul(A[1][3], Det2(Minor(A, 1, 3))))

Det4(A) ==
    FAdd(FSub(FMul(A[1][1], Det3(Minor(A, 1, 1))),
              FMul(A[1][2], Det3(Minor(A, 1, 2)))),
         FSub(FMul(A[1][3], Det3(Minor(A, 1, 3))),
              FMul(A[1][4], Det3(Minor(A, 1, 4)))))

\* np.linalg.inv of a 4x4 matrix (it raises LinAlgError when Singular(A))
Singular(A) == IsZero(Det4(A))

Inv4(A) ==
    LET det == Det4(A)
    IN  Tup([i \in 1..4 |-> Tup([j \in 1..4 |->
            FDiv(FMul(I(IF (i + j) % 2 = 0 THEN 1 ELSE -1), Det3(Minor(A, j, i))), det)])])

\* The mean over the first axis of a stack of equally shaped matrices
MatMean(Rs) ==
    Tup([i \in 1..Len(Rs[1]) |-> Tup([j \in 1..Len(Rs[1][1]) |->
        FDiv(FSum(Tup([k \in 1..Len(Rs) |-> Rs[k][i][j]])), I(Len(Rs)))])])

-----------------------------------------------------------------------------
(* flame.transforms: the transform builders *)

\* create_viewport_matrix(nx, ny): NDC [-1, 1] -> raster, origin top left
CreateViewportMatrix(nx, ny) ==
    << <<Q(nx, 2), I(0),      I(0),    Q(nx - 1, 2)>>,
       <<I(0),     Q(-ny, 2), I(0),    Q(ny - 1, 2)>>,
       <<I(0),     I(0),      Q(1, 2), Q(1, 2)>>,
       <<I(0),     I(0),      I(0),    I(1)>> >>

\* create_ortho_matrix(nx, ny): world -> NDC, the view volume has the image's
\* aspect ratio, znear = 0 and zfar = 100
CreateOrthoMatrix(nx, ny) ==
    << <<Q(ny, nx), I(0), I(0),         I(0)>>,
       <<I(0),      I(1), I(0),         I(0)>>,
       <<I(0),      I(0), Q(-1, 50),    I(-1)>>,
       <<I(0),      I(0), I(0),         I(1)>> >>

\* crop_matrix_to_3d(mat_33): the 3x3 raster-space matrix lifted to 4x4, z untouched
CropMatrixTo3d(m) ==
    << <<m[1][1], m[1][2], I(0), m[1][3]>>,
       <<m[2][1], m[2][2], I(0), m[2][3]>>,
       <<I(0),    I(0),    I(1), I(0)>>,
       <<I(0),    I(0),    I(0), I(1)>> >>

-----------------------------------------------------------------------------
(* flame.utils.vertex_normals and flame.utils.upsample_mesh *)

Cross(a, b) ==
    << FSub(FMul(a[2], b[3]), FMul(a[3], b[2])),
       FSub(FMul(a[3], b[1]), FMul(a[1], b[3])),
       FSub(FMul(a[1], b[2]), FMul(a[2], b[1])) >>

VSub(x, y) == Tup([k \in DOMAIN x |-> FSub(x[k], y[k])])

Zero3 == <<I(0), I(0), I(0)>>

\* normals.index_add_(0, f[:, c], ...) for the three corners of each face;
\* faces hold 0-based vertex indices
RECURSIVE AddFaceNormals(_, _, _)
AddFaceNormals(normals, v, faces) ==
    IF faces = <<>> THEN normals
    ELSE LET f == Head(faces)
             v0 == v[f[1] + 1]
             v1 == v[f[2] + 1]
             v2 == v[f[3] + 1]
             n1 == Cross(VSub(v2, v1), VSub(v0, v1))
             n2 == Cross(VSub(v0, v2), VSub(v1, v2))
             n0 == Cross(VSub(v1, v0), VSub(v2, v0))
             a1 == [normals EXCEPT ![f[2] + 1] = VAdd(@, n1)]
             a2 == [a1 EXCEPT ![f[3] + 1] = VAdd(@, n2)]
             a0 == [a2 EXCEPT ![f[1] + 1] = VAdd(@, n0)]
         IN  AddFaceNormals(a0, v, Tail(faces))

FLess(a, b) == a[1] * b[2] < b[1] * a[2]

\* F.normalize(x, eps=1e-6): x / max(||x||, eps)
Normalize(x) ==
    LET n == VNorm(x)
        eps == Q(1, 1000000)
    IN  Tup([k \in DOMAIN x |-> FDiv(x[k], IF FLess(n, eps) THEN eps ELSE n)])

VertexNormals(v, faces) ==
    LET acc == AddFaceNormals(Tup([i \in DOMAIN v |-> Zero3]), v, faces)
    IN  Tup([i \in DOMAIN v |-> Normalize(acc[i])])

\* a[tri[0]] * w[0] + a[tri[1]] * w[1] + a[tri[2]] * w[2]
Barycentric(a, tri, w) ==
    VAdd(VAdd(VScale(w[1], a[tri[1] + 1]), VScale(w[2], a[tri[2] + 1])),
         VScale(w[3], a[tri[3] + 1]))

\* pixel_3d_normals / np.linalg.norm(pixel_3d_normals, axis=-1)[:, np.newaxis]
UnitNormal(n) == Tup([k \in DOMAIN n |-> FDiv(n[k], VNorm(n))])

\* disp_map[y_coords[valid_pixel_ids].astype(int), x_coords[valid_pixel_ids].astype(int)]
Displacement(disp_map, t, i) ==
    disp_map[t.y_coords[t.valid_pixel_ids[i] + 1] + 1][t.x_coords[t.valid_pixel_ids[i] + 1] + 1]

\* upsample_mesh(v, normals, disp_map, dense_template): one row per row of
\* valid_pixel_3d_faces
UpsampleMesh(v, normals, disp_map, t) ==
    Tup([i \in 1..Len(t.valid_pixel_3d_faces) |->
        LET pixel_3d_point == Barycentric(v, t.valid_pixel_3d_faces[i], t.valid_pixel_b_coords[i])
            pixel_3d_normal ==
                UnitNormal(Barycentric(normals, t.valid_pixel_3d_faces[i], t.valid_pixel_b_coords[i]))
            offset == VScale(Displacement(disp_map, t, i), pixel_3d_normal)
        IN  VAdd(pixel_3d_point, offset)])

-----------------------------------------------------------------------------
(* DecaReconModel: construction *)

MODELS == {"deca-coarse", "deca-dense", "emoca-coarse", "emoca-dense"}
DEVICES == {"cuda", "cpu"}

\* 'dense' in name, 'emoca' in name (on the names the model constructs with)
IsDense(n) == n \in {"deca-dense", "emoca-dense", "mica-dense"}
IsEmoca(n) == n \in {"emoca-coarse", "emoca-dense"}

\* self._crop_img_size
crop_img_size == <<224, 224>>

\* Mutant of Check: the device is checked before the name
Check_DeviceFirst(n, dev, size) ==
    IF dev \notin DEVICES THEN [exc |-> "ValueError: Device", log |-> <<>>]
    ELSE IF n \notin MODELS THEN [exc |-> "ValueError: Name", log |-> <<>>]
    ELSE IF size = None THEN [exc |-> "none", log |-> <<"img_size not given">>]
    ELSE [exc |-> "none", log |-> <<>>]

\* _check(): the exception it raises ("none" if it returns) and what it logs
Check(n, dev, size) ==
    IF n \notin MODELS THEN [exc |-> "ValueError: Name", log |-> <<>>]
    ELSE IF dev \notin DEVICES THEN [exc |-> "ValueError: Device", log |-> <<>>]
    ELSE IF size = None THEN [exc |-> "none", log |-> <<"img_size not given">>]
    ELSE [exc |-> "none", log |-> <<>>]

\* The methods __init__ runs, in order, up to the first that raises
InitSteps(chk) ==
    IF chk.exc # "none" THEN <<"_check">>
    ELSE <<"_check", "_load_cfg", "_load_data", "_create_submodels">>

NoCall ==
    [op |-> "none", shape |-> <<>>, cam |-> <<>>, v |-> <<>>, R |-> <<>>, uv_z |-> <<>>,
     img_size |-> None, tform |-> None]
NoOut == [v |-> <<>>, mat |-> <<>>]

\* __init__(name, img_size, device, tform)
Construct(n, size, dev, tf) ==
    LET chk == Check(n, dev, size)
    IN  /\ pc = "new"
        /\ name' = n
        /\ img_size' = size
        /\ device' = dev
        /\ tform' = tf
        /\ warned' = FALSE
        /\ steps' = InitSteps(chk)
        /\ log' = log \o chk.log
        /\ exc' = chk.exc
        /\ pc' = IF chk.exc = "none" THEN "ready" ELSE "failed"
        /\ last' = [NoCall EXCEPT !.op = "__init__", !.img_size = size, !.tform = tf]
        /\ hist' = [hist EXCEPT !.tform_set = (tf # None)]
        /\ UNCHANGED out

\* recon_model.tform = m, the caller's assignment of the attribute
SetTform(m) ==
    /\ pc = "ready"
    /\ tform' = m
    /\ exc' = "none"
    /\ last' = [NoCall EXCEPT !.op = "set tform", !.tform = m]
    /\ hist' = [hist EXCEPT !.tform_set = TRUE]
    /\ UNCHANGED <<pc, name, device, img_size, warned, steps, log, out>>

-----------------------------------------------------------------------------
(* DecaReconModel: _encode, _decode, __call__ *)

\* _check_input(image, expected_wh): the input contract of the base class,
\* a 1 x 3 x 224 x 224 image
CheckInputOk(shape, expected_wh) == <<shape[3], shape[4]>> = expected_wh

\* Mutant of InferImgSize: the size is inferred on every call
InferImgSize_EveryCall(size, shape) == <<shape[3], shape[4]>>

\* lines 174-177 of _encode: the img_size after the call
InferImgSize(size, shape) == IF size = None THEN <<shape[3], shape[4]>> ELSE size

\* enc_params = self.E_flame(image): the encoder is a black box; its output
\* is a 1 x n_param array, here zero but for the camera block
EncParams(cam) ==
    << Tup([j \in 1..n_param |->
          IF j > N_SHAPE + N_TEX + N_EXP + N_POSE /\ j <= N_SHAPE + N_TEX + N_EXP + N_POSE + N_CAM
          THEN cam[j - (N_SHAPE + N_TEX + N_EXP + N_POSE)] ELSE 0]) >>

\* T and S of _decode
TranslationMatrix(tx, ty) ==
    << <<I(1), I(0), I(0), tx>>, <<I(0), I(1), I(0), ty>>,
       <<I(0), I(0), I(1), I(0)>>, <<I(0), I(0), I(0), I(1)>> >>

\* Mutant of ScaleMatrix: z is not scaled
ScaleMatrix_XYOnly(sc) ==
    << <<sc, I(0), I(0), I(0)>>, <<I(0), sc, I(0), I(0)>>,
       <<I(0), I(0), I(1), I(0)>>, <<I(0), I(0), I(0), I(1)>> >>

ScaleMatrix(sc) ==
    << <<sc, I(0), I(0), I(0)>>, <<I(0), sc, I(0), I(0)>>,
       <<I(0), I(0), sc, I(0)>>, <<I(0), I(0), I(0), I(1)>> >>

\* Mutant of PoseMatrix: T @ S, scale first and translate after
PoseMatrix_ScaleThenTranslate(cam) ==
    MatMul(TranslationMatrix(cam[2], cam[3]), ScaleMatrix(cam[1]))

\* pose = S @ T, with sc = cam[0] and tx, ty = cam[1:]
PoseMatrix(cam) == MatMul(ScaleMatrix(cam[1]), TranslationMatrix(cam[2], cam[3]))

\* Mutant of TformDefault: the test of the flag is inverted
TformDefault_FlagInverted(tf, w) ==
    IF tf = None
    THEN [tform |-> Eye(3), warned |-> TRUE,
          log |-> IF w THEN <<"tform is not set">> ELSE <<>>]
    ELSE [tform |-> tf, warned |-> w, log |-> <<>>]

\* lines 292-298: the tform, the flag and the log after the default is applied
TformDefault(tf, w) ==
    IF tf = None
    THEN [tform |-> Eye(3), warned |-> TRUE,
          log |-> IF ~w THEN <<"tform is not set">> ELSE <<>>]
    ELSE [tform |-> tf, warned |-> w, log |-> <<>>]

\* forward = np.linalg.inv(CP) @ VP @ OP
Forward(tf) ==
    MatMul(MatMul(Inv4(CropMatrixTo3d(tf)),
                  CreateViewportMatrix(crop_img_size[1], crop_img_size[2])),
           CreateOrthoMatrix(crop_img_size[1], crop_img_size[2]))

\* Mutant of Backward: the factors are inverted one by one, in the same order
Backward_InverseEach(size) ==
    MatMul(Inv4(CreateViewportMatrix(size[1], size[2])), Inv4(CreateOrthoMatrix(size[1], size[2])))

\* backward = np.linalg.inv((VP_ @ OP_))
Backward(size) ==
    Inv4(MatMul(CreateViewportMatrix(size[1], size[2]), CreateOrthoMatrix(size[1], size[2])))

\* mat = backward @ forward @ pose
FullMatrix(cam, tf, size) == MatMul(MatMul(Backward(size), Forward(tf)), PoseMatrix(cam))

\* v = np.c_[v, np.ones(v.shape[0])] @ mat.T; v = v[:, :3]
ApplyMatrix(v, mat) ==
    LET h == Tup([i \in DOMAIN v |-> v[i] \o <<I(1)>>])
        r == MatMul(h, Transpose(mat))
    IN  Tup([i \in DOMAIN v |-> SubSeq(r[i], 1, 3)])

\* The static assets _load_data reads: the faces of the head template, the
\* dense template and the fixed displacement map (a 2 x 2 UV map here)
faces == << <<0, 1, 2>> >>
dense_template ==
    [x_coords |-> <<0, 1, 0, 1>>,
     y_coords |-> <<0, 0, 1, 1>>,
     valid_pixel_ids |-> <<0, 1, 3>>,
     valid_pixel_3d_faces |-> << <<0, 1, 2>>, <<0, 1, 2>>, <<0, 1, 2>> >>,
     valid_pixel_b_coords |-> << <<I(1), I(0), I(0)>>, <<Q(1, 2), Q(1, 2), I(0)>>,
                                 <<Q(1, 4), Q(1, 4), Q(1, 2)>> >>]
fixed_uv_dis == << <<I(0), Q(1, 2)>>, <<I(0), I(0)>> >>

\* disp_map = uv_z + self.fixed_uv_dis[None, None, :, :]
DispMap(uv_z) == Tup([r \in DOMAIN uv_z |-> VAdd(uv_z[r], fixed_uv_dis[r])])

\* lines 246-264: the decoded vertices, upsampled by the dense models
DecodedVertices(dense, v, uv_z) ==
    IF dense THEN UpsampleMesh(v, VertexNormals(v, faces), DispMap(uv_z), dense_template)
    ELSE v

\* _decode: [err, v, mat, tform, warned, log], where tform, warned and log
\* are the instance state it leaves
Decode(dense, tf, w, size, cam, v, Rs, uv_z) ==
    LET d == TformDefault(tf, w)
        vd == DecodedVertices(dense, v, uv_z)
        R == MatMean(Rs)
    IN  IF Singular(CropMatrixTo3d(d.tform))
           \/ Singular(MatMul(CreateViewportMatrix(size[1], size[2]),
                              CreateOrthoMatrix(size[1], size[2])))
        THEN [err |-> "LinAlgError", v |-> <<>>, mat |-> <<>>,
              tform |-> d.tform, warned |-> d.warned, log |-> d.log]
        ELSE LET mat == FullMatrix(cam, d.tform, size)
             IN  [err |-> "none", v |-> ApplyMatrix(vd, mat), mat |-> MatMul(mat, R),
                  tform |-> d.tform, warned |-> d.warned, log |-> d.log]

-----------------------------------------------------------------------------
(* The inputs the instance is driven with *)

Names == {"deca-coarse", "emoca-dense", "mica-dense"}
Devices == {"cpu", "tpu"}
ImgSizes == {None, <<224, 224>>, <<640, 480>>}
Similarity == MI(<< <<2, 0, 10>>, <<0, 2, 20>>, <<0, 0, 1>> >>)
Tforms == {Eye(3), Similarity}
Shapes == {<<1, 3, 224, 224>>, <<1, 3, 480, 640>>}
\* [sc, tx, ty] as the encoder predicts them
Cams == {<<2, 0, 0>>, <<-3, 1, -1>>}
\* D_flame is a black box: the vertices v and the rotation R it returns
RotZ == MI(<< <<0, -1, 0, 0>>, <<1, 0, 0, 0>>, <<0, 0, 1, 0>>, <<0, 0, 0, 1>> >>)
Meshes == { [v |-> MI(<< <<0, 0, 2>>, <<2, 0, 2>>, <<0, 2, 2>> >>), R |-> Eye(4)],
            [v |-> MI(<< <<1, 1, 1>>, <<2, 1, 1>>, <<1, 4, 5>> >>), R |-> RotZ] }
\* D_detail is a black box: the 2 x 2 detail map it returns
UvZs == { << <<I(0), I(0)>>, <<I(0), I(0)>> >>, << <<I(0), Q(-1, 2)>>, <<I(1), I(3)>> >> }

\* Decode is a pure function of its arguments: its values on the arguments
\* the calls below can pass, computed once.  cam is the camera block as
\* decomposed from the encoder's output, m the pair D_flame returned.
Sizes == (ImgSizes \ {None}) \cup {<<s[3], s[4]>> : s \in Shapes}
DecodeArgs ==
    {x \in BOOLEAN \X (Tforms \cup {None}) \X BOOLEAN \X Sizes \X Cams \X Meshes
            \X (UvZs \cup {<<>>}) : x[1] = (x[7] # <<>>)}
Decoded ==
    [x \in DecodeArgs |->
        Decode(x[1], x[2], x[3], x[4], VI(x[5]), x[6].v,
               Tup([i \in DOMAIN x[6].v |-> x[6].R]), x[7])] @@ <<>>

ReconInit ==
    /\ pc = "new"
    /\ name = ""
    /\ device = ""
    /\ img_size = None
    /\ tform = None
    /\ warned = FALSE
    /\ steps = <<>>
    /\ log = <<>>
    /\ exc = "none"
    /\ last = NoCall
    /\ out = NoOut
    /\ hist = [tform_set |-> FALSE, calls |-> 0]

\* _encode(image), called on its own
Encode(shape) ==
    /\ pc = "ready"
    /\ img_size' = InferImgSize(img_size, shape)
    /\ exc' = "none"
    /\ last' = [NoCall EXCEPT !.op = "_encode", !.shape = shape]
    /\ UNCHANGED <<pc, name, device, tform, warned, steps, log, out, hist>>

\* __call__(image): _check_input, _encode, _decode
Call(shape, cam, m, uv_z) ==
    /\ pc = "ready"
    /\ uv_z \in (IF IsDense(name) THEN UvZs ELSE {<<>>})
    /\ IF ~CheckInputOk(shape, <<224, 224>>)
       THEN /\ exc' = "ValueError: image"
            /\ last' = [NoCall EXCEPT !.op = "__call__", !.shape = shape]
            /\ out' = NoOut
            /\ UNCHANGED <<pc, name, device, img_size, tform, warned, steps, log, hist>>
       ELSE \E size \in {InferImgSize(img_size, shape)},
               enc \in {DecomposeParams(EncParams(cam), param_dict)} :
            \E r \in {Decoded[<<IsDense(name), tform, warned, size, enc.d["cam"][1], m, uv_z>>]} :
                /\ last' = [NoCall EXCEPT !.op = "__call__", !.shape = shape, !.cam = cam,
                                          !.v = m.v, !.R = m.R, !.uv_z = uv_z]
                /\ img_size' = size
                /\ tform' = r.tform
                /\ warned' = r.warned
                /\ log' = log \o r.log
                /\ exc' = r.err
                /\ out' = [v |-> r.v, mat |-> r.mat]
                /\ hist' = [hist EXCEPT !.calls = IF r.err = "none" THEN Min(@ + 1, 2) ELSE @]
                /\ UNCHANGED <<pc, name, device, steps>>

Init ==
    /\ ReconInit
    /\ DecompIdle
    /\ u_pc = "idle" /\ u_in = <<>> /\ v_dense = <<>>
    /\ o_pc = "idle" /\ lines = <<>> /\ obj = <<>>

Next ==
    \/ \E n \in Names, size \in ImgSizes, dev \in Devices, tf \in Tforms \cup {None} :
          Construct(n, size, dev, tf) /\ UNCHANGED <<decomp_vars, upsample_vars, obj_vars>>
    \/ \E m \in Tforms \cup {None} :
          SetTform(m) /\ UNCHANGED <<decomp_vars, upsample_vars, obj_vars>>
    \/ \E shape \in Shapes :
          Encode(shape) /\ UNCHANGED <<decomp_vars, upsample_vars, obj_vars>>
    \/ \E shape \in Shapes, cam \in Cams, m \in Meshes, uv_z \in UvZs \cup {<<>>} :
          Call(shape, cam, m, uv_z) /\ UNCHANGED <<decomp_vars, upsample_vars, obj_vars>>

Spec == Init /\ [][Next]_vars

-----------------------------------------------------------------------------
(* Properties of the instance *)

Count(s, x) == Cardinality({i \in DOMAIN s : s[i] = x})

\* The last operation was a __call__ that returned
Returned == pc = "ready" /\ last.op = "__call__" /\ exc = "none"

\* C2: as long as the caller has neither passed nor assigned tform, the
\* "tform is not set" warning has been logged exactly once as soon as one call
\* has returned (none before, no second one after later calls), and each such
\* call has used the 3x3 identity as the crop transform.
C2_TformWarningOnce ==
    (pc = "ready" /\ ~hist.tform_set) =>
        /\ Count(log, "tform is not set") = (IF hist.calls > 0 THEN 1 ELSE 0)
        /\ Returned =>
              out.mat = MatMul(FullMatrix(VI(last.cam), Eye(3), img_size), last.R)

C2_Witness ==
    /\ Returned /\ ~hist.tform_set /\ hist.calls = 2
    /\ Count(log, "tform is not set") = 1

\* C3: once img_size is set no step changes it, whatever the size of the
\* images given later; and a call (or _encode) that returns on an instance
\* whose img_size is None stores that call's image dimensions.
C3_ImgSizeInferredOnce ==
    [][ /\ (img_size # None => img_size' = img_size)
        /\ (pc = "ready" /\ img_size = None /\ last'.op \in {"__call__", "_encode"}
              /\ exc' = "none")
           => img_size' = <<last'.shape[3], last'.shape[4]>> ]_vars

C3_Witness ==
    /\ Count(log, "img_size not given") = 1
    /\ img_size = <<224, 224>>
    /\ last.op = "_encode" /\ last.shape = <<1, 3, 480, 640>> /\ exc = "none"

\* C4: a __call__ changes no attribute of the instance other than img_size
\* (only when it was None) and _warned_about_tform; in particular tform is
\* after the call what it was before.
C4_CallChangesOnlyImgSizeAndFlag ==
    [][ last'.op = "__call__" =>
          /\ tform' = tform
          /\ (img_size # None => img_size' = img_size)
          /\ name' = name /\ device' = device /\ steps' = steps /\ pc' = pc ]_vars

\* S @ T written out
PoseExplicit(cam) ==
    << <<I(cam[1]), I(0), I(0), I(cam[1] * cam[2])>>,
       <<I(0), I(cam[1]), I(0), I(cam[1] * cam[3])>>,
       <<I(0), I(0), I(cam[1]), I(0)>>,
       <<I(0), I(0), I(0), I(1)>> >>

\* C5: after a call with the identity as crop transform and an original image
\* size equal to the crop size, backward @ forward is the 4x4 identity and
\* the matrix returned is S @ T followed by the rotation alone.
C5_IdentityReprojection ==
    (Returned /\ tform = Eye(3) /\ img_size = <<224, 224>>) =>
        /\ MatMul(Backward(img_size), Forward(tform)) = Eye(4)
        /\ out.mat = MatMul(PoseExplicit(last.cam), last.R)

C5_Witness ==
    /\ Returned /\ tform = Eye(3) /\ img_size = <<224, 224>>
    /\ last.cam = <<-3, 1, -1>> /\ last.R = RotZ

C9_EagerConfigurationErrors ==
    LET okName == name \in {"deca-coarse", "deca-dense", "emoca-coarse", "emoca-dense"}
        okDevice == device \in {"cuda", "cpu"}
    IN  /\ pc = "failed" =>
              /\ ~(okName /\ okDevice)
              /\ exc = (IF ~okName THEN "ValueError: Name" ELSE "ValueError: Device")
              /\ steps = <<"_check">>
              /\ log = <<>>
        /\ pc = "ready" =>
              /\ okName /\ okDevice
              /\ steps = <<"_check", "_load_cfg", "_load_data", "_create_submodels">>
        /\ (pc = "ready" /\ last.op = "__init__") =>
              log = (IF last.img_size = None THEN <<"img_size not given">> ELSE <<>>)

C9_Witness ==
    /\ pc = "failed" /\ name = "mica-dense" /\ device = "tpu" /\ img_size = None

C11_StoredSizeIsWidthHeight ==
    [][ (pc = "ready" /\ img_size = None /\ last'.op \in {"__call__", "_encode"}
           /\ exc' = "none")
        => img_size' = <<last'.shape[4], last'.shape[3]>> ]_vars

-----------------------------------------------------------------------------
(* _decompose_params on its own: specification and properties *)

IdleRecon == ReconInit
IdleUpsample == u_pc = "idle" /\ u_in = <<>> /\ v_dense = <<>>
IdleObj == o_pc = "idle" /\ lines = <<>> /\ obj = <<>>

InitDecompose == IdleRecon /\ DecompInit /\ IdleUpsample /\ IdleObj

NextDecompose ==
    \/ BuildParameters /\ UNCHANGED <<recon_vars, upsample_vars, obj_vars>>
    \/ Decompose /\ UNCHANGED <<recon_vars, upsample_vars, obj_vars>>

SpecDecompose == InitDecompose /\ [][NextDecompose]_vars

\* C1: decomposing the concatenation of the six blocks returns one entry per
\* group, keyed by the trimmed name, equal to the block it was built from;
\* the entry of a group is the run of columns that starts at the sum of the
\* sizes of the groups before it (0, 100, 150, 200, 206, 209), so the runs
\* neither overlap nor leave a gap and cover the 236 columns; the light entry
\* is (batch, 9, 3) with element [b, i, j] the column 3 i + j of its block.
C1_DecomposeRoundTrip ==
    d_pc = "done" =>
        LET d == enc_dict.d
            offset == [shape |-> 0, tex |-> 100, exp |-> 150, pose |-> 200, cam |-> 206,
                       light |-> 209]
            width == [shape |-> 100, tex |-> 50, exp |-> 50, pose |-> 6, cam |-> 3,
                      light |-> 27]
        IN  /\ enc_dict.err = "none"
            /\ DOMAIN d = {"shape", "tex", "exp", "pose", "cam", "light"}
            /\ \A k \in {"shape", "tex", "exp", "pose", "cam"} :
                  /\ d[k] = blocks[k]
                  /\ \A b \in DOMAIN parameters :
                        /\ Len(d[k][b]) = width[k]
                        /\ \A c \in 1..width[k] : d[k][b][c] = parameters[b][offset[k] + c]
            /\ Len(d["light"]) = Len(parameters)
            /\ \A b \in DOMAIN parameters :
                  /\ Len(parameters[b]) = 236
                  /\ Len(d["light"][b]) = 9
                  /\ \A i \in 1..9 :
                        /\ Len(d["light"][b][i]) = 3
                        /\ \A j \in 1..3 :
                              /\ d["light"][b][i][j] = blocks["light"][b][3 * (i - 1) + j]
                              /\ d["light"][b][i][j] =
                                    parameters[b][offset["light"] + 3 * (i - 1) + j]

C1_Witness ==
    /\ d_pc = "done" /\ Len(parameters) = 2 /\ Len(parameters[2]) = 236
    /\ enc_dict.d["cam"][2] # enc_dict.d["cam"][1]
    /\ enc_dict.d["light"][2][9][3] = blocks["light"][2][27]

-----------------------------------------------------------------------------
(* _decompose_params on arrays of any width *)

\* Widths below, at and above n_param = 236, the boundaries of the groups
\* among them
Widths == {0, 1, 100, 150, 200, 206, 209, 210, 235, 236, 237, 263}

\* A (batch, width) array whose entries differ from column to column and
\* from row to row
Array(batch, width, seed) ==
    Tup([b \in 1..batch |-> Tup([j \in 1..width |-> seed * 10000 + j * 10 + b])])

InitWidth ==
    /\ IdleRecon /\ IdleUpsample /\ IdleObj
    /\ d_pc = "built"
    /\ blocks = EmptyDict
    /\ \E batch \in 1..MaxBatch, width \in Widths, seed \in 1..3 :
          parameters = Array(batch, width, seed)
    /\ enc_dict = [err |-> "none", d |-> EmptyDict]

NextWidth == Decompose /\ UNCHANGED <<recon_vars, upsample_vars, obj_vars>>

SpecWidth == InitWidth /\ [][NextWidth]_vars

\* The width of the array decomposed
Width == Len(parameters[1])

\* C12 as stated: on an array whose width is not n_param, narrower or wider,
\* _decompose_params raises nothing and returns all six groups.
C12_NoErrorOnAnyWidth ==
    (d_pc = "done" /\ Width # n_param) =>
        /\ enc_dict.err = "none"
        /\ DOMAIN enc_dict.d = {"shape", "tex", "exp", "pose", "cam", "light"}

\* C12, amended: there is no check of the width as such.  On a wider array
\* nothing is raised and all six groups are returned, read from the first
\* n_param columns, the columns beyond them ignored; on a narrower array the
\* light block has fewer than 27 columns, its reshape to (batch, 9, 3) raises
\* and no dictionary is returned.
C12_WiderSilentNarrowerRaises ==
    (d_pc = "done" /\ Width # n_param) =>
        IF Width > n_param
        THEN /\ enc_dict = DecomposeParams(Columns(parameters, 0, n_param), param_dict)
             /\ enc_dict.err = "none"
             /\ DOMAIN enc_dict.d = {"shape", "tex", "exp", "pose", "cam", "light"}
             /\ \A b \in DOMAIN parameters :
                   /\ enc_dict.d["shape"][b] = SubSeq(parameters[b], 1, 100)
                   /\ enc_dict.d["cam"][b] = SubSeq(parameters[b], 207, 209)
                   /\ enc_dict.d["light"][b][9] = SubSeq(parameters[b], 234, 236)
        ELSE enc_dict.err = "RuntimeError"

C12_Witness ==
    /\ d_pc = "done" /\ Width = 263 /\ Len(parameters) = 2
    /\ enc_dict.err = "none" /\ Len(enc_dict.d["light"][2]) = 9

-----------------------------------------------------------------------------
(* upsample_mesh on its own: inputs, specification and properties *)

\* Coarse meshes of four vertices
UpMeshes == { MI(<< <<0, 0, 0>>, <<4, 0, 0>>, <<0, 4, 0>>, <<4, 4, 2>> >>),
              MI(<< <<1, 2, 3>>, <<-1, 0, 1>>, <<2, -2, 0>>, <<0, 0, 5>> >>) }
\* Per-vertex unit normals (vertex_normals returns the zero vector for a
\* vertex of no face or of degenerate faces only).  With the templates below
\* every interpolated normal has a rational length, so that the square root
\* is exact.
UpNormals == { MI(<< <<0, 0, 1>>, <<0, 0, 1>>, <<0, 0, 1>>, <<0, 0, 1>> >>),
               MI(<< <<1, 0, 0>>, <<0, 1, 0>>, <<0, 0, 1>>, <<0, 0, -1>> >>),
               MI(<< <<0, 0, 1>>, <<0, 0, -1>>, <<0, 0, 0>>, <<0, 0, 1>> >>) }
\* 2 x 2 displacement maps
UpDispMaps == { << <<I(0), I(0)>>, <<I(0), I(0)>> >>,
                << <<I(0), I(3)>>, <<I(0), I(0)>> >>,
                << <<I(1), I(2)>>, <<Q(-1, 2), I(4)>> >>,
                << <<I(-2), Q(1, 4)>>, <<I(5), I(0)>> >> }
\* Dense templates over the 2 x 2 UV map; pixel p is at column x_coords[p],
\* row y_coords[p]
UpTemplates ==
    { [x_coords |-> <<0, 1, 0, 1>>, y_coords |-> <<0, 0, 1, 1>>,
       valid_pixel_ids |-> <<0, 1, 3>>,
       valid_pixel_3d_faces |-> << <<0, 1, 2>>, <<0, 1, 2>>, <<1, 3, 2>> >>,
       valid_pixel_b_coords |-> << <<I(1), I(0), I(0)>>, <<Q(3, 7), Q(4, 7), I(0)>>,
                                   <<Q(3, 9), Q(1, 9), Q(5, 9)>> >>],
      [x_coords |-> <<0, 1, 0, 1>>, y_coords |-> <<0, 0, 1, 1>>,
       valid_pixel_ids |-> <<2, 1>>,
       valid_pixel_3d_faces |-> << <<2, 3, 0>>, <<2, 0, 1>> >>,
       valid_pixel_b_coords |-> << <<Q(1, 2), Q(1, 2), I(0)>>, <<I(1), I(0), I(0)>> >>],
      [x_coords |-> <<0, 1, 0, 1>>, y_coords |-> <<0, 0, 1, 1>>,
       valid_pixel_ids |-> <<>>,
       valid_pixel_3d_faces |-> <<>>,
       valid_pixel_b_coords |-> <<>>] }

InitUpsample ==
    /\ IdleRecon /\ DecompIdle /\ IdleObj
    /\ u_pc = "args"
    /\ \E v \in UpMeshes, n \in UpNormals, dm \in UpDispMaps, t \in UpTemplates :
          u_in = [v |-> v, normals |-> n, disp_map |-> dm, dense_template |-> t]
    /\ v_dense = <<>>

\* v_dense = upsample_mesh(v, normals, disp_map, dense_template)
Upsample ==
    /\ u_pc = "args"
    /\ v_dense' = UpsampleMesh(u_in.v, u_in.normals, u_in.disp_map, u_in.dense_template)
    /\ u_pc' = "done"
    /\ UNCHANGED u_in

NextUpsample == Upsample /\ UNCHANGED <<recon_vars, decomp_vars, obj_vars>>

SpecUpsample == InitUpsample /\ [][NextUpsample]_vars

\* The barycentric combination of the rows of a for valid pixel i, written out
Interpolated(a, i) ==
    LET t == u_in.dense_template
        tri == t.valid_pixel_3d_faces[i]
        w == t.valid_pixel_b_coords[i]
    IN  [k \in 1..3 |->
            FAdd(FAdd(FMul(w[1], a[tri[1] + 1][k]), FMul(w[2], a[tri[2] + 1][k])),
                 FMul(w[3], a[tri[3] + 1][k]))]

\* The displacement-map entry of valid pixel i: row y_coords, column x_coords
PixelDisplacement(i) ==
    LET t == u_in.dense_template
        p == t.valid_pixel_ids[i] + 1
    IN  u_in.disp_map[t.y_coords[p] + 1][t.x_coords[p] + 1]

\* C7: the result has one vertex per valid pixel, in the template's order;
\* the i-th is p_i + d_i n_i with n_i the unit vector along the interpolated
\* normal (the offset is parallel to it, of length |d_i|, on the side of the
\* sign of d_i); and where the displacement is zero it is p_i itself.
C7_UpsampleFormula ==
    u_pc = "done" =>
        /\ Len(v_dense) = Len(u_in.dense_template.valid_pixel_ids)
        /\ \A i \in DOMAIN v_dense :
              LET p == Interpolated(u_in.v, i)
                  n == Interpolated(u_in.normals, i)
                  d == PixelDisplacement(i)
                  off == [k \in 1..3 |-> FSub(v_dense[i][k], p[k])]
              IN  /\ IsZero(d) => v_dense[i] = Tup(p)
                  /\ ~IsZero(VDot(n, n)) =>
                        /\ VDot(off, off) = FMul(d, d)
                        /\ Cross(off, n) = Zero3
                        /\ Sign(VDot(off, n)[1]) = Sign(d[1])

\* C8: the normalization is guarded, so no component of an output vertex is
\* NaN or infinite, also when an interpolated normal has length zero.
C8_NoNaNInOutput ==
    u_pc = "done" => \A i \in DOMAIN v_dense : \A k \in 1..3 : IsFinite(v_dense[i][k])

-----------------------------------------------------------------------------
(* load_obj: a file is a sequence of lines, a line the sequence of the
   tokens of line.strip().split(), its tokens separated by single spaces *)

\* line.startswith(prefix + " "): the stripped line has the prefix as its
\* first token and something after it
StartsWith(line, prefix) == Len(line) >= 2 /\ line[1] = prefix

\* float(x) succeeds on these tokens
IsFloat(tok) == tok \in {"0", "1", "2", "0.5", "-3", "nan"}

\* float(tok)
Float(tok) ==
    CASE tok = "0" -> I(0)
      [] tok = "1" -> I(1)
      [] tok = "2" -> I(2)
      [] tok = "0.5" -> Q(1, 2)
      [] tok = "-3" -> I(-3)
      [] tok = "nan" -> NaN

\* f.split("/") of a face token
Split(tok) ==
    CASE tok = "1/1" -> <<"1", "1">>
      [] tok = "2/2" -> <<"2", "2">>
      [] tok = "3/3" -> <<"3", "3">>
      [] tok = "1//1" -> <<"1", "", "1">>
      [] tok = "/1" -> <<"", "1">>
      [] OTHER -> <<tok>>

\* int(x) succeeds on these tokens
IsInt(tok) == tok \in {"1", "2", "3"}

\* int(tok)
ToInt(tok) == CASE tok = "1" -> 1 [] tok = "2" -> 2 [] tok = "3" -> 3

\* An exception: its type and its message, the message being a format, the
\* values formatted into it and the strings (as token sequences) formatted
\* into it
Raise(type, format, values, strings) ==
    [raised |-> type, msg |-> [format |-> format, values |-> values, strings |-> strings]]

NoError == Raise("", "", <<>>, <<>>)

\* The ValueError float() raises on a token: it names the token, not the line
FloatError(tok) ==
    Raise("ValueError", "could not convert string to float: %s", <<>>, <<<<tok>>>>)

\* The ValueError int() raises on a token
IntError(tok) ==
    Raise("ValueError", "invalid literal for int() with base 10: %s", <<>>, <<<<tok>>>>)

\* [float(x) for x in toks]: the values, or the error of the first token
\* float() rejects
RECURSIVE Floats(_)
Floats(toks) ==
    IF toks = <<>> THEN [err |-> NoError, vals |-> <<>>]
    ELSE IF ~IsFloat(Head(toks)) THEN [err |-> FloatError(Head(toks)), vals |-> <<>>]
    ELSE LET rest == Floats(Tail(toks))
         IN  IF rest.err.raised # "" THEN rest
             ELSE [err |-> NoError, vals |-> <<Float(Head(toks))>> \o rest.vals]

\* Lines 57-62 and 63-69: the values of a vertex (n = 3) or texture (n = 2)
\* line are those of tokens[1:n+1]; fewer than n raise with the line
Coordinates(line, n, format) ==
    LET r == Floats(Slice(line, 1, n + 1))
    IN  IF r.err.raised # "" THEN r
        ELSE IF Len(r.vals) # n
             THEN [err |-> Raise("ValueError", format, <<r.vals>>, <<line>>), vals |-> <<>>]
        ELSE r

\* Lines 74-80: the vertex and texture indices of the face tokens
RECURSIVE FaceProps(_, _, _)
FaceProps(toks, fs, uvs) ==
    IF toks = <<>> THEN [err |-> NoError, faces |-> fs, uv_faces |-> uvs]
    ELSE LET vert_props == Split(Head(toks))
         IN  IF ~IsInt(vert_props[1]) THEN
                 [err |-> IntError(vert_props[1]), faces |-> fs, uv_faces |-> uvs]
             ELSE IF Len(vert_props) > 1 /\ vert_props[2] # "" THEN
                 IF ~IsInt(vert_props[2]) THEN
                     [err |-> IntError(vert_props[2]), faces |-> fs, uv_faces |-> uvs]
                 ELSE FaceProps(Tail(toks), Append(fs, ToInt(vert_props[1])),
                                Append(uvs, ToInt(vert_props[2])))
             ELSE FaceProps(Tail(toks), Append(fs, ToInt(vert_props[1])), uvs)

NoLists == [verts |-> <<>>, uvcoords |-> <<>>, faces |-> <<>>, uv_faces |-> <<>>]

\* Lines 55-80: the loop over the lines, stopped by the first exception
RECURSIVE ReadLines(_, _)
ReadLines(ls, st) ==
    IF ls = <<>> THEN [err |-> NoError, st |-> st]
    ELSE LET line == Head(ls)
         IN  IF StartsWith(line, "v") THEN
                 LET r == Coordinates(line, 3, "Vertex %s does not have 3 values. Line: %s")
                 IN  IF r.err.raised # "" THEN [err |-> r.err, st |-> st]
                     ELSE ReadLines(Tail(ls), [st EXCEPT !.verts = Append(@, r.vals)])
             ELSE IF StartsWith(line, "vt") THEN
                 LET r == Coordinates(line, 2, "Texture %s does not have 2 values. Line: %s")
                 IN  IF r.err.raised # "" THEN [err |-> r.err, st |-> st]
                     ELSE ReadLines(Tail(ls), [st EXCEPT !.uvcoords = Append(@, r.vals)])
             ELSE IF StartsWith(line, "f") THEN
                 LET r == FaceProps(Slice(line, 1, Len(line)), st.faces, st.uv_faces)
                 IN  IF r.err.raised # "" THEN [err |-> r.err, st |-> st]
                     ELSE ReadLines(Tail(ls), [st EXCEPT !.faces = r.faces,
                                                          !.uv_faces = r.uv_faces])
             ELSE ReadLines(Tail(ls), st)

\* Lines 84-87: x.reshape(-1, 3) - 1 of a flat index list
Reshape3(flat) ==
    Tup([i \in 1..(Len(flat) \div 3) |->
            <<flat[3 * i - 2] - 1, flat[3 * i - 1] - 1, flat[3 * i] - 1>>])

ReshapeError ==
    Raise("RuntimeError", "shape '[-1, 3]' is invalid for input", <<>>, <<>>)

\* load_obj(obj_filename) on the lines of the file: the exception raised, or
\* the four returned arrays (each with a leading batch axis of one)
LoadObj(ls) ==
    LET r == ReadLines(ls, NoLists)
    IN  IF r.err.raised # "" THEN r.err @@ [ret |-> <<>>]
        ELSE IF Len(r.st.faces) % 3 # 0 \/ Len(r.st.uv_faces) % 3 # 0
             THEN ReshapeError @@ [ret |-> <<>>]
        ELSE NoError @@ [ret |-> << <<r.st.verts>>, <<r.st.uvcoords>>,
                                    <<Reshape3(r.st.faces)>>, <<Reshape3(r.st.uv_faces)>> >>]

\* The lines the files are made of
ObjLines ==
    { <<"v", "1", "2", "0.5">>,
      <<"v", "0", "-3", "1">>,
      <<"v", "1", "2">>,
      <<"v", "1", "2", "0.5", "0">>,
      <<"v", "1", "x">>,
      <<"v">>,
      <<"vt", "0.5", "1">>,
      <<"vt", "1">>,
      <<"vt", "0", "1", "2">>,
      <<"vt", "nan", "x">>,
      <<"vn", "0", "0", "1">>,
      <<"f", "1/1", "2/2", "3/3">>,
      <<"f", "1//1", "2", "3">>,
      <<"f", "1", "/1", "2">>,
      <<"f", "1", "2">>,
      <<>> }

MaxLines == 2

ObjFiles == UNION { [1..n -> ObjLines] : n \in 0..MaxLines }

InitLoadObj ==
    /\ IdleRecon /\ DecompIdle /\ IdleUpsample
    /\ o_pc = "file"
    /\ lines \in ObjFiles
    /\ obj = <<>>

\* obj = load_obj(obj_filename)
LoadObjFile ==
    /\ o_pc = "file"
    /\ obj' = LoadObj(lines)
    /\ o_pc' = "done"
    /\ UNCHANGED lines

NextLoadObj == LoadObjFile /\ UNCHANGED <<recon_vars, decomp_vars, upsample_vars>>

SpecLoadObj == InitLoadObj /\ [][NextLoadObj]_vars

\* The number of coordinate values on a line
NumValues(line) == Len(line) - 1

\* A vertex line without exactly 3 values, a texture line without exactly 2
Malformed(line) ==
    \/ StartsWith(line, "v") /\ NumValues(line) # 3
    \/ StartsWith(line, "vt") /\ NumValues(line) # 2

\* C10: when the first malformed vertex or texture line of a file is reached
\* (no line before it raises), load_obj raises ValueError with that line's
\* content in the message, whether the line has too few or too many values;
\* and a file load_obj returns arrays for has no malformed line.
C10_MalformedLineRaises ==
    o_pc = "done" =>
        /\ \A i \in DOMAIN lines :
              ( /\ Malformed(lines[i])
                /\ \A j \in 1..(i - 1) : ~Malformed(lines[j])
                /\ ReadLines(SubSeq(lines, 1, i - 1), NoLists).err.raised = "" )
              => /\ obj.raised = "ValueError"
                 /\ \E k \in DOMAIN obj.msg.strings : obj.msg.strings[k] = lines[i]
        /\ obj.raised = "" => \A i \in DOMAIN lines : ~Malformed(lines[i])

====
